---- MODULE Spec2Model ----
(***************************************************************************)
(* Model of the ERA5 download drivers of nenana-model:                     *)
(*   src/download_cds.py   Task, batched, needed_downloads,                *)
(*                         create_or_update_download, main                 *)
(*   src/download_era5.py  Task, begin_export, download_years              *)
(* Strings are sequences of one-character strings.  The local filesystem   *)
(* is a function from paths to files, the remote service a list of jobs.   *)
(***************************************************************************)
EXTENDS Integers, Sequences, FiniteSets, TLC

VARIABLES
    driver,     \* which program runs: "cds" (main) or "era5" (download_years)
    fs,         \* the data directory: path -> [exists, data]
    jobs,       \* the remote service's jobs, in order of submission
    pc,         \* position of the driver process
    idx,        \* index of the unit the for loop is at
    task,       \* the local variable `task`
    statuses,   \* the local variable `statuses`, the returned report
    pre,        \* history: the unit's files when this run began processing it
    calls,      \* history: the remote calls this run made for each unit
    hist,       \* history: the previous returned run and the remote changes since
    nd_stop,    \* needed_downloads: the end of the year range
    nd_names,   \* needed_downloads: the names yielded so far
    rt,         \* Task.to_file / Task.from_file used on their own: the round trip
    bt          \* batched(iterable, n) used on its own: the generator's state

vars == <<driver, fs, jobs, pc, idx, task, statuses, pre, calls, hist, nd_stop, nd_names, rt, bt>>

-----------------------------------------------------------------------------
(* Program constants and bounds *)

FirstYear == 1940
YearStop == 2025
BatchSize == 5

\* The drivers are modelled over a prefix of the years: range(FirstYear, DriverYearStop)
\* for main, the first Era5Years years for download_years(years).
DriverYearStop == 1947
Era5Years == 2
\* The remote service accepts at most MaxJobs submissions.
MaxJobs == 2
MaxItems == 4
MaxBatch == 3

-----------------------------------------------------------------------------
(* Strings *)

Digits == <<"0", "1", "2", "3", "4", "5", "6", "7", "8", "9">>

\* The characters the model's strings are made of, in code point order.
Alphabet == <<" ", "-", "0", "1", "2", "3", "4", "5", "6", "7", "8", "9", "G", "r", "x">>

Ord(c) == CHOOSE k \in 1..Len(Alphabet) : Alphabet[k] = c

\* str(i) for an int i >= 0
RECURSIVE Str(_)
Str(i) == IF i < 10 THEN <<Digits[i + 1]>> ELSE Str(i \div 10) \o <<Digits[(i % 10) + 1]>>

\* a < b for Python strings
RECURSIVE StrLess(_, _)
StrLess(a, b) ==
    IF b = <<>> THEN FALSE
    ELSE IF a = <<>> THEN TRUE
    ELSE IF Head(a) # Head(b) THEN Ord(Head(a)) < Ord(Head(b))
    ELSE StrLess(Tail(a), Tail(b))

\* min(batch) and max(batch) of a non-empty tuple of strings: the first
\* minimal (maximal) item
RECURSIVE StrMin(_)
StrMin(batch) ==
    IF Len(batch) = 1 THEN batch[1]
    ELSE LET m == StrMin(SubSeq(batch, 1, Len(batch) - 1))
         IN IF StrLess(batch[Len(batch)], m) THEN batch[Len(batch)] ELSE m

RECURSIVE StrMax(_)
StrMax(batch) ==
    IF Len(batch) = 1 THEN batch[1]
    ELSE LET m == StrMax(SubSeq(batch, 1, Len(batch) - 1))
         IN IF StrLess(m, batch[Len(batch)]) THEN batch[Len(batch)] ELSE m

IsSpace(c) == c = " "

\* str.strip()
RECURSIVE LStrip(_)
LStrip(s) == IF s # <<>> /\ IsSpace(Head(s)) THEN LStrip(Tail(s)) ELSE s

RECURSIVE RStrip(_)
RStrip(s) ==
    IF s # <<>> /\ IsSpace(s[Len(s)]) THEN RStrip(SubSeq(s, 1, Len(s) - 1)) ELSE s

Strip(s) == RStrip(LStrip(s))

-----------------------------------------------------------------------------
(* batched and needed_downloads *)

\* Mutant of Islice: one item more than asked for
IsliceOneMore(s, pos, n) ==
    SubSeq(s, pos, IF pos + n < Len(s) THEN pos + n ELSE Len(s))

\* itertools.islice(it, n) on the iterator at position pos of s
Islice(s, pos, n) ==
    SubSeq(s, pos, IF pos + n - 1 < Len(s) THEN pos + n - 1 ELSE Len(s))

RECURSIVE BatchedFrom(_, _, _)
BatchedFrom(s, pos, n) ==
    LET batch == Islice(s, pos, n)
    IN IF batch = <<>> THEN <<>>
       ELSE <<batch>> \o BatchedFrom(s, pos + Len(batch), n)

\* batched(iterable, n): the batches yielded, or the ValueError
Batched(s, n) ==
    IF n < 1 THEN [raised |-> TRUE, batches |-> <<>>]
    ELSE [raised |-> FALSE, batches |-> BatchedFrom(s, 1, n)]

\* The generator batched(iterable, n) before its first next()
BatchedCall(iterable, n) ==
    [stage |-> "created", iterable |-> iterable, n |-> n, pos |-> 1, yielded |-> <<>>]

\* No call of batched on its own
NoBatched == BatchedCall(<<>>, 1)

\* years = [str(i) for i in range(first, stop)]
YearStrings(first, stop) ==
    [k \in 1..(IF stop > first THEN stop - first ELSE 0) |-> Str(first + k - 1)]

\* Mutant of BatchName: the first year is used for both ends
BatchNameMinOnly(year_batch) == StrMin(year_batch) \o <<"-">> \o StrMin(year_batch)

\* name = f"{min(year_batch)}-{max(year_batch)}"
BatchName(year_batch) == StrMin(year_batch) \o <<"-">> \o StrMax(year_batch)

\* The (name, options) pairs needed_downloads yields for range(first, stop);
\* of the options only the year list differs between units.
NeededDownloads(first, stop) ==
    LET batches == Batched(YearStrings(first, stop), BatchSize).batches
    IN [k \in 1..Len(batches) |-> [name |-> BatchName(batches[k]), year |-> batches[k]]]

-----------------------------------------------------------------------------
(* Paths and files *)

NoFile == [exists |-> FALSE, data |-> <<>>]
File(data) == [exists |-> TRUE, data |-> data]

\* path = folder / f"{name}.grib"
OutPath(name) == [stem |-> name, ext |-> "grib"]

\* path.with_suffix(suffix)
WithSuffix(path, suffix) == [path EXCEPT !.ext = suffix]

\* cache_path = path.with_suffix(".requestid"), base / f"{year}.requestid"
CachePath(name) == WithSuffix(OutPath(name), "requestid")

\* The units download_years visits: one per year of `years`
Era5Units ==
    [k \in 1..Era5Years |->
        [name |-> Str(FirstYear + k - 1), year |-> <<Str(FirstYear + k - 1)>>]]

\* The units main visits: those needed_downloads yields
CdsUnits == NeededDownloads(FirstYear, DriverYearStop)

\* The units the driver d visits, in order
Units(d) == IF d = "cds" THEN CdsUnits ELSE Era5Units

UnitIds(d) == 1..Len(Units(d))

Paths(d) ==
    {OutPath(Units(d)[k].name) : k \in UnitIds(d)}
        \cup {CachePath(Units(d)[k].name) : k \in UnitIds(d)}

\* A data file that was in the directory before the first run
ForeignData == <<"x">>

-----------------------------------------------------------------------------
(* The remote service (cdsapi.Client, cdsapi.api.Result) *)

\* The identifier the service gives its n-th job
RequestIdOf(n) == <<"r">> \o Str(n)

\* The file Result.download writes for the job request_id
Artifact(request_id) == <<"G">> \o request_id

\* What a fetch that failed midway leaves at the target
PartialArtifact == <<"G">>

NoReply == [state |-> "none", location |-> FALSE]

\* Result.update(request_id): the replies the service can give
PollReplies(request_id) ==
    {[state |-> jobs[k].state, location |-> jobs[k].location] :
        k \in {i \in 1..Len(jobs) : jobs[i].request_id = request_id}}

\* Mutant of NewJob: the unit's years are left out of the request
NewJobNoYears(year) ==
    [request_id |-> RequestIdOf(Len(jobs) + 1), year |-> <<>>,
     state |-> "queued", location |-> FALSE]

\* client.retrieve(dataset, options) with wait_until_complete=False
NewJob(year) ==
    [request_id |-> RequestIdOf(Len(jobs) + 1), year |-> year,
     state |-> "queued", location |-> FALSE]

\* The states a job can move to on its own
JobMoves(job) ==
    CASE job.state = "queued" ->
            {[job EXCEPT !.state = "running"]}
      [] job.state = "running" ->
            {[job EXCEPT !.state = "failed"]}
                \cup {[job EXCEPT !.state = "completed", !.location = l] : l \in BOOLEAN}
      [] OTHER -> {}

-----------------------------------------------------------------------------
(* Task *)

NoTask == [request_id |-> <<>>, reply |-> NoReply]

\* Task.from_file: the request identifier read from the file
FromFile(file) == Strip(file.data)

\* Mutant of ToFileData: the identifier is written without its last character
ToFileDataTruncated(t) == SubSeq(t.request_id, 1, Len(t.request_id) - 1)

\* Task.to_file: the file written
ToFileData(t) == t.request_id

\* Task.status
Status(t) == t.reply.state

\* Mutant of TaskDownload: the guard reads the "state" of the reply
TaskDownloadGuardsOnState(t, files, path) ==
    IF Status(t) # "completed"
    THEN {[raised |-> "ValueError", fs |-> files, fetched |-> FALSE]}
    ELSE {[raised |-> "none", fetched |-> TRUE,
           fs |-> [files EXCEPT ![path] = File(Artifact(t.request_id))]]}
         \cup {[raised |-> "RemoteError", fetched |-> TRUE, fs |-> f] :
                 f \in {files, [files EXCEPT ![path] = File(PartialArtifact)]}}

\* Mutant of TaskDownload: the cache file is removed once the artifact is fetched
TaskDownloadThenCleanup(t, files, path) ==
    IF ~t.reply.location
    THEN {[raised |-> "ValueError", fs |-> files, fetched |-> FALSE]}
    ELSE {[raised |-> "none", fetched |-> TRUE,
           fs |-> [files EXCEPT ![path] = File(Artifact(t.request_id)),
                                ![WithSuffix(path, "requestid")] = NoFile]]}
         \cup {[raised |-> "RemoteError", fetched |-> TRUE, fs |-> f] :
                 f \in {files, [files EXCEPT ![path] = File(PartialArtifact)]}}

\* Task.download(path): the outcomes, each the error raised ("none" when it
\* returns), the files afterwards and whether the fetch was called
TaskDownload(t, files, path) ==
    IF ~t.reply.location
    THEN {[raised |-> "ValueError", fs |-> files, fetched |-> FALSE]}
    ELSE {[raised |-> "none", fetched |-> TRUE,
           fs |-> [files EXCEPT ![path] = File(Artifact(t.request_id))]]}
         \cup {[raised |-> "RemoteError", fetched |-> TRUE, fs |-> f] :
                 f \in {files, [files EXCEPT ![path] = File(PartialArtifact)]}}

\* No Task has been saved or restored
NoRoundTrip == [stage |-> "start", orig |-> NoTask, path |-> OutPath(<<>>),
                loaded |-> NoTask, calls |-> <<>>, njobs |-> 0]

\* statuses[name] = status
DictSet(d, name, status) ==
    IF \E k \in 1..Len(d) : d[k].name = name
    THEN [k \in 1..Len(d) |-> IF d[k].name = name THEN [d[k] EXCEPT !.status = status] ELSE d[k]]
    ELSE Append(d, [name |-> name, status |-> status])

\* statuses.append((year, status))
ListAppend(d, name, status) == Append(d, [name |-> name, status |-> status])

-----------------------------------------------------------------------------
(* The driver: main / create_or_update_download, download_years *)

Running == {"loop", "new_init", "load_init", "to_file", "status"}
Ended == {"idle", "returned", "raised_RemoteError", "raised_ValueError", "interrupted"}

Unit == Units(driver)[idx]
Path == OutPath(Unit.name)

\* Mutant of Skips: the cache file is looked for instead of the output file
SkipsIfCached(files, path) == files[WithSuffix(path, "requestid")].exists

\* if path.exists(): ... return "completed" / continue
Skips(files, path) == files[path].exists

\* Mutant of NeedsNewTask: the cache file is never looked at
NeedsNewTaskAlways(files, cache_path) == TRUE

\* if not cache_path.exists(): begin a new export, else load the task
NeedsNewTask(files, cache_path) == ~files[cache_path].exists

\* Mutant of ShouldDownload: any task that has left the queue is downloaded
ShouldDownloadUnlessQueued(t) == Status(t) # "queued"

\* Mutant of ShouldDownload: the driver looks for the location in the reply
ShouldDownloadIfLocated(t) == t.reply.location

\* if task.status == "completed": task.download(path)
ShouldDownload(t) == Status(t) = "completed"

NotSeen == [seen |-> FALSE, out |-> NoFile, cache |-> NoFile]
Snapshot(files, name) ==
    [seen |-> TRUE, out |-> files[OutPath(name)], cache |-> files[CachePath(name)]]

\* One entry of the call log: a remote call ("submit", "poll", "fetch") or the
\* driver's call of Task.download ("download"), the identifier it was made
\* for, whether it returned, and the state the reply gave
Call(op, request_id, ok, state) ==
    [op |-> op, request_id |-> request_id, ok |-> ok, state |-> state]
Logged(log, c) == [log EXCEPT ![idx] = Append(@, c)]

\* The entry for the driver's call task.download(path): the path is logged too
DownloadCall(request_id, ok, state, path) ==
    [op |-> "download", request_id |-> request_id, ok |-> ok, state |-> state,
     path |-> path]

\* Mutant of OnRemoteError: the error is caught and the call made again
OnRemoteErrorRetry(at) == at

\* Where the driver is after a remote call raised: nothing catches the error
OnRemoteError(at) == "raised_RemoteError"

\* The units that have an output file
OutSet(files) == {k \in UnitIds(driver) : files[OutPath(Units(driver)[k].name)].exists}

\* The end of one iteration of the for loop; after the last one the driver returns
NextUnit ==
    /\ idx' = idx + 1
    /\ pc' = IF idx + 1 > Len(Units(driver)) THEN "returned" ELSE "loop"

\* The report after create_or_update_download returned status for the unit
\* (main), after statuses.append((year, task.status)) (download_years)
Recorded(status) ==
    IF driver = "cds" THEN DictSet(statuses, Unit.name, status)
    ELSE ListAppend(statuses, Unit.name, status)

\* The report after a unit was skipped: main records the "completed" that
\* create_or_update_download returns, download_years continues
RecordedSkip ==
    IF driver = "cds" THEN DictSet(statuses, Unit.name, "completed") ELSE statuses

\* hist.cur: whether the remote service changed a job since the latest run
\* began: "none", "run" (while it ran only) or "gap" (after it ended);
\* hist.prev: the same for the run before it, as far as that run returned.
NoHist == [prevReturned |-> FALSE, prevOut |-> {}, prev |-> "gap", cur |-> "none"]

Changed(cur, at) == IF at \in Ended THEN "gap" ELSE "run"

StartRun ==
    /\ pc \in Ended
    /\ pc' = "loop"
    /\ idx' = 1
    /\ task' = NoTask
    /\ statuses' = <<>>
    /\ pre' = [k \in UnitIds(driver) |-> NotSeen]
    /\ calls' = [k \in UnitIds(driver) |-> <<>>]
    /\ hist' = IF pc = "returned"
               THEN [prevReturned |-> TRUE, prevOut |-> OutSet(fs),
                     prev |-> hist.cur, cur |-> "none"]
               ELSE NoHist
    /\ UNCHANGED <<driver, fs, jobs, nd_stop, nd_names, rt, bt>>

SkipUnit ==
    /\ pc = "loop"
    /\ Skips(fs, Path)
    /\ pre' = [pre EXCEPT ![idx] = Snapshot(fs, Unit.name)]
    /\ statuses' = RecordedSkip
    /\ NextUnit
    /\ UNCHANGED <<driver, fs, jobs, task, calls, hist, nd_stop, nd_names, rt, bt>>

\* Task.new / begin_export: client.retrieve(...), then request_id = result.reply["request_id"]
BeginExport ==
    /\ pc = "loop"
    /\ ~Skips(fs, Path)
    /\ NeedsNewTask(fs, WithSuffix(Path, "requestid"))
    /\ pre' = [pre EXCEPT ![idx] = Snapshot(fs, Unit.name)]
    /\ \/ /\ Len(jobs) < MaxJobs
          /\ jobs' = Append(jobs, NewJob(Unit.year))
          /\ task' = [request_id |-> NewJob(Unit.year).request_id, reply |-> NoReply]
          /\ calls' = Logged(calls, Call("submit", NewJob(Unit.year).request_id, TRUE, "queued"))
          /\ pc' = "new_init"
       \/ /\ calls' = Logged(calls, Call("submit", <<>>, FALSE, "none"))
          /\ pc' = OnRemoteError(pc)
          /\ UNCHANGED <<jobs, task>>
    /\ UNCHANGED <<driver, fs, idx, statuses, hist, nd_stop, nd_names, rt, bt>>

\* Task.from_file up to the constructor's update()
LoadTask ==
    /\ pc = "loop"
    /\ ~Skips(fs, Path)
    /\ ~NeedsNewTask(fs, WithSuffix(Path, "requestid"))
    /\ pre' = [pre EXCEPT ![idx] = Snapshot(fs, Unit.name)]
    /\ task' = [request_id |-> FromFile(fs[WithSuffix(Path, "requestid")]), reply |-> NoReply]
    /\ pc' = "load_init"
    /\ UNCHANGED <<driver, fs, jobs, idx, statuses, calls, hist, nd_stop, nd_names, rt, bt>>

\* Task.__init__: self.update()
TaskInit ==
    /\ pc \in {"new_init", "load_init"}
    /\ \/ \E r \in PollReplies(task.request_id) :
            /\ task' = [task EXCEPT !.reply = r]
            /\ calls' = Logged(calls, Call("poll", task.request_id, TRUE, r.state))
            /\ pc' = IF pc = "new_init" THEN "to_file" ELSE "status"
       \/ /\ calls' = Logged(calls, Call("poll", task.request_id, FALSE, "none"))
          /\ pc' = OnRemoteError(pc)
          /\ UNCHANGED task
    /\ UNCHANGED <<driver, fs, jobs, idx, statuses, pre, hist, nd_stop, nd_names, rt, bt>>

\* task.to_file(cache_path)
ToFile ==
    /\ pc = "to_file"
    /\ fs' = [fs EXCEPT ![WithSuffix(Path, "requestid")] = File(ToFileData(task))]
    /\ pc' = "status"
    /\ UNCHANGED <<driver, jobs, idx, task, statuses, pre, calls, hist, nd_stop, nd_names, rt, bt>>

\* The task is not completed: no download, the status is reported
NotComplete ==
    /\ pc = "status"
    /\ ~ShouldDownload(task)
    /\ statuses' = Recorded(Status(task))
    /\ NextUnit
    /\ UNCHANGED <<driver, fs, jobs, task, pre, calls, hist, nd_stop, nd_names, rt, bt>>

\* task.download(path), then the status is reported
Download ==
    /\ pc = "status"
    /\ ShouldDownload(task)
    /\ \E o \in TaskDownload(task, fs, Path) :
        /\ fs' = o.fs
        /\ calls' = LET called == Logged(calls, DownloadCall(task.request_id,
                                           o.raised = "none", Status(task), Path))
                    IN IF o.fetched
                       THEN Logged(called, Call("fetch", task.request_id,
                                                o.raised = "none", Status(task)))
                       ELSE called
        /\ \/ /\ o.raised = "none"
              /\ statuses' = Recorded(Status(task))
              /\ NextUnit
           \/ /\ o.raised = "ValueError"
              /\ pc' = "raised_ValueError"
              /\ UNCHANGED <<idx, statuses>>
           \/ /\ o.raised = "RemoteError"
              /\ pc' = OnRemoteError(pc)
              /\ UNCHANGED <<idx, statuses>>
    /\ UNCHANGED <<driver, jobs, task, pre, hist, nd_stop, nd_names, rt, bt>>

\* The process is killed
Interrupt ==
    /\ pc \in Running
    /\ pc' = "interrupted"
    /\ UNCHANGED <<driver, fs, jobs, idx, task, statuses, pre, calls, hist, nd_stop, nd_names, rt, bt>>

\* The remote service works on a job
RemoteAdvance ==
    /\ \E k \in 1..Len(jobs) : \E j \in JobMoves(jobs[k]) :
        jobs' = [jobs EXCEPT ![k] = j]
    /\ hist' = [hist EXCEPT !.cur = Changed(@, pc)]
    /\ UNCHANGED <<driver, fs, pc, idx, task, statuses, pre, calls, nd_stop, nd_names, rt, bt>>

\* Before the first run: no cache file, any of the data files may be there already
Init ==
    /\ driver \in {"cds", "era5"}
    /\ fs \in [Paths(driver) -> {NoFile, File(ForeignData)}]
    /\ \A p \in Paths(driver) : p.ext = "requestid" => fs[p] = NoFile
    /\ jobs = <<>>
    /\ pc = "idle"
    /\ idx = 1
    /\ task = NoTask
    /\ statuses = <<>>
    /\ pre = [k \in UnitIds(driver) |-> NotSeen]
    /\ calls = [k \in UnitIds(driver) |-> <<>>]
    /\ hist = NoHist
    /\ nd_stop = DriverYearStop
    /\ nd_names = <<>>
    /\ rt = NoRoundTrip
    /\ bt = NoBatched

Next ==
    \/ StartRun
    \/ SkipUnit
    \/ BeginExport
    \/ LoadTask
    \/ TaskInit
    \/ ToFile
    \/ NotComplete
    \/ Download
    \/ Interrupt
    \/ RemoteAdvance

Spec == Init /\ [][Next]_vars

-----------------------------------------------------------------------------
(* needed_downloads as a generator, over every year range range(FirstYear, stop) *)

InitNames ==
    /\ nd_stop \in FirstYear..YearStop
    /\ nd_names = <<>>
    /\ rt = NoRoundTrip
    /\ bt = NoBatched
    /\ driver = "cds"
    /\ fs = [p \in Paths("cds") |-> NoFile]
    /\ jobs = <<>>
    /\ pc = "idle"
    /\ idx = 1
    /\ task = NoTask
    /\ statuses = <<>>
    /\ pre = [k \in UnitIds("cds") |-> NotSeen]
    /\ calls = [k \in UnitIds("cds") |-> <<>>]
    /\ hist = NoHist

\* for year_batch in batched(years, 5): ... yield name, options
YieldName ==
    /\ Len(nd_names) < Len(NeededDownloads(FirstYear, nd_stop))
    /\ nd_names' = Append(nd_names, NeededDownloads(FirstYear, nd_stop)[Len(nd_names) + 1].name)
    /\ UNCHANGED <<driver, fs, jobs, pc, idx, task, statuses, pre, calls, hist, nd_stop, rt, bt>>

NextNames == YieldName

SpecNames == InitNames /\ [][NextNames]_vars

-----------------------------------------------------------------------------
(* The driver re-invoked for ever, no remote call failing, no job failing *)

\* A step of the driver process that is not a failing remote call; the process
\* is not killed
DriverStep ==
    /\ \/ StartRun
       \/ SkipUnit
       \/ BeginExport
       \/ LoadTask
       \/ TaskInit
       \/ ToFile
       \/ NotComplete
       \/ Download
    /\ pc' # "raised_RemoteError"

\* A step of the remote service that does not fail a job
RemoteStep ==
    /\ RemoteAdvance
    /\ \A k \in 1..Len(jobs) : jobs'[k].state # "failed"

NextLive ==
    \/ DriverStep
    \/ RemoteStep

\* The driver is invoked again whenever it has ended, each run goes on to its
\* end, and the remote service goes on working on the jobs it has
SpecLive == Init /\ [][NextLive]_vars /\ WF_vars(DriverStep) /\ WF_vars(RemoteStep)

-----------------------------------------------------------------------------
(* Task.to_file and Task.from_file on any Task *)

\* The request identifiers a Task is made for
TaskIds ==
    {<<"r", "1">>, <<"r", "2">>, <<"r", " ", "1">>,
     <<" ", "r", "1">>, <<"r", "1", " ">>, <<" ", "r", "1", " ">>}

\* The jobs of a remote service that knows the identifiers ids[1], ids[2], ...
KnownJobs(ids) ==
    [k \in 1..Len(ids) |->
        [request_id |-> ids[k], year |-> <<>>, state |-> "queued", location |-> FALSE]]

InitTask ==
    /\ \E a, b \in TaskIds :
          jobs \in {KnownJobs(<<a>>)} \cup (IF a # b THEN {KnownJobs(<<a, b>>)} ELSE {})
    /\ Len(jobs) <= MaxJobs
    /\ rt = [NoRoundTrip EXCEPT !.njobs = Len(jobs)]
    /\ bt = NoBatched
    /\ driver = "cds"
    /\ fs = [p \in Paths("cds") |-> NoFile]
    /\ pc = "idle"
    /\ idx = 1
    /\ task = NoTask
    /\ statuses = <<>>
    /\ pre = [k \in UnitIds("cds") |-> NotSeen]
    /\ calls = [k \in UnitIds("cds") |-> <<>>]
    /\ hist = NoHist
    /\ nd_stop = DriverYearStop
    /\ nd_names = <<>>

\* Task(request_id): Task.__init__ with its update()
RtConstruct ==
    /\ rt.stage = "start"
    /\ \E id \in TaskIds :
          \/ \E r \in PollReplies(id) :
                rt' = [rt EXCEPT !.stage = "task", !.orig = [request_id |-> id, reply |-> r]]
          \/ rt' = [rt EXCEPT !.stage = "raised_init"]
    /\ UNCHANGED <<driver, fs, jobs, pc, idx, task, statuses, pre, calls, hist, nd_stop, nd_names, bt>>

\* task.to_file(path)
RtToFile ==
    /\ rt.stage = "task"
    /\ \E p \in DOMAIN fs :
          /\ fs' = [fs EXCEPT ![p] = File(ToFileData(rt.orig))]
          /\ rt' = [rt EXCEPT !.stage = "saved", !.path = p]
    /\ UNCHANGED <<driver, jobs, pc, idx, task, statuses, pre, calls, hist, nd_stop, nd_names, bt>>

\* Task.from_file(path): read, strip, Task.__init__ with its update()
RtFromFile ==
    /\ rt.stage = "saved"
    /\ LET request_id == FromFile(fs[rt.path])
       IN \/ \E r \in PollReplies(request_id) :
                rt' = [rt EXCEPT !.stage = "loaded",
                                 !.loaded = [request_id |-> request_id, reply |-> r],
                                 !.calls = Append(@, Call("poll", request_id, TRUE, r.state))]
          \/ rt' = [rt EXCEPT !.stage = "raised_load",
                              !.calls = Append(@, Call("poll", request_id, FALSE, "none"))]
    /\ UNCHANGED <<driver, fs, jobs, pc, idx, task, statuses, pre, calls, hist, nd_stop, nd_names, bt>>

NextTask ==
    \/ RtConstruct
    \/ RtToFile
    \/ RtFromFile
    \/ RemoteAdvance

SpecTask == InitTask /\ [][NextTask]_vars

-----------------------------------------------------------------------------
(* batched on any iterable and any n *)

\* The iterables handed to batched
Iterables == UNION {[1..len -> {"a", "b"}] : len \in 0..MaxItems}

InitBatched ==
    /\ \E iterable \in Iterables, n \in (1 - MaxBatch)..MaxBatch :
          bt = BatchedCall(iterable, n)
    /\ rt = NoRoundTrip
    /\ driver = "cds"
    /\ fs = [p \in Paths("cds") |-> NoFile]
    /\ jobs = <<>>
    /\ pc = "idle"
    /\ idx = 1
    /\ task = NoTask
    /\ statuses = <<>>
    /\ pre = [k \in UnitIds("cds") |-> NotSeen]
    /\ calls = [k \in UnitIds("cds") |-> <<>>]
    /\ hist = NoHist
    /\ nd_stop = DriverYearStop
    /\ nd_names = <<>>

\* if n < 1: raise ValueError("n must be at least one")
BatchedRaise ==
    /\ bt.stage = "created"
    /\ bt.n < 1
    /\ bt' = [bt EXCEPT !.stage = "raised_ValueError"]
    /\ UNCHANGED <<driver, fs, jobs, pc, idx, task, statuses, pre, calls, hist, nd_stop, nd_names, rt>>

\* while batch := tuple(itertools.islice(it, n)): yield batch
BatchedYield ==
    /\ bt.stage \in {"created", "yielded"}
    /\ bt.n >= 1
    /\ LET batch == Islice(bt.iterable, bt.pos, bt.n)
       IN /\ batch # <<>>
          /\ bt' = [bt EXCEPT !.stage = "yielded",
                              !.pos = @ + Len(batch),
                              !.yielded = Append(@, batch)]
    /\ UNCHANGED <<driver, fs, jobs, pc, idx, task, statuses, pre, calls, hist, nd_stop, nd_names, rt>>

\* the while loop ends on the empty batch: StopIteration
BatchedStop ==
    /\ bt.stage \in {"created", "yielded"}
    /\ bt.n >= 1
    /\ Islice(bt.iterable, bt.pos, bt.n) = <<>>
    /\ bt' = [bt EXCEPT !.stage = "stopped"]
    /\ UNCHANGED <<driver, fs, jobs, pc, idx, task, statuses, pre, calls, hist, nd_stop, nd_names, rt>>

NextBatched ==
    \/ BatchedRaise
    \/ BatchedYield
    \/ BatchedStop

SpecBatched == InitBatched /\ [][NextBatched]_vars

-----------------------------------------------------------------------------
(* Vocabulary of the properties *)

CallsOf(k, op) == SelectSeq(calls[k], LAMBDA c : c.op = op)
RemoteCallsOf(k) == SelectSeq(calls[k], LAMBDA c : c.op \in {"submit", "poll", "fetch"})

OutFile(k) == fs[OutPath(Units(driver)[k].name)]
CacheFile(k) == fs[CachePath(Units(driver)[k].name)]

\* The run has finished the iteration of the for loop for unit k
StepDone(k) == pre[k].seen /\ k < idx

\* The run processed unit k and found neither file / only the cache file
FoundNothing(k) == pre[k].seen /\ ~pre[k].out.exists /\ ~pre[k].cache.exists
FoundCacheOnly(k) == pre[k].seen /\ ~pre[k].out.exists /\ pre[k].cache.exists

\* The run polled unit k's task and the reply was not "completed"
PolledIncomplete(k) ==
    /\ CallsOf(k, "poll") # <<>>
    /\ \A i \in 1..Len(calls[k]) :
          calls[k][i].op = "poll" =>
              calls[k][i].ok /\ calls[k][i].state \in {"queued", "running", "failed"}

-----------------------------------------------------------------------------
(* C1 *)

\* C1: a unit whose output file exists when the driver processes it gets no
\* remote call in that run (no submit, no poll, no fetch), whether or not it
\* has a cache file.
C1_NoRemoteCallWhenOutputExists ==
    \A k \in UnitIds(driver) :
        (pre[k].seen /\ pre[k].out.exists) => RemoteCallsOf(k) = <<>>

C1_Witness ==
    \E k, m \in UnitIds(driver) :
        /\ StepDone(k) /\ pre[k].out.exists /\ pre[k].cache.exists
        /\ StepDone(m) /\ pre[m].out.exists /\ ~pre[m].cache.exists

-----------------------------------------------------------------------------
(* C2 *)

\* C2: processing a unit that has neither output file nor cache file makes
\* exactly one submit call, and after the step the cache file exists and holds
\* the request identifier that submit returned.
C2_OneSubmitOnePersistedId ==
    \A k \in UnitIds(driver) :
        FoundNothing(k) =>
            /\ Len(CallsOf(k, "submit")) <= 1
            /\ (StepDone(k) \/ (k = idx /\ pc = "status")) =>
                  /\ Len(CallsOf(k, "submit")) = 1
                  /\ CallsOf(k, "submit")[1].ok
                  /\ CacheFile(k) = File(CallsOf(k, "submit")[1].request_id)
                  /\ Cardinality({i \in 1..Len(jobs) :
                        jobs[i].request_id = CacheFile(k).data
                        /\ jobs[i].year = Units(driver)[k].year}) = 1

C2_Witness ==
    \E k \in UnitIds(driver) :
        FoundNothing(k) /\ StepDone(k) /\ CacheFile(k).exists /\ pc = "returned"

-----------------------------------------------------------------------------
(* C3 *)

\* C3 as stated: when two runs in a row both return and the remote service
\* changes no job from the end of the first to the end of the second, the
\* second run leaves the same set of output files as the first.
C3_SameOutputsIfQuietBetweenRuns ==
    (pc = "returned" /\ hist.prevReturned /\ hist.prev \in {"none", "run"} /\ hist.cur = "none")
        => OutSet(fs) = hist.prevOut

\* C3 (amended): when two runs in a row both return and the remote service
\* changes no job from the start of the first run to the end of the second,
\* the second run leaves the same set of output files as the first; and no run
\* submits for a unit whose cache file or output file exists.
C3_Idempotent ==
    /\ (pc = "returned" /\ hist.prevReturned /\ hist.prev = "none" /\ hist.cur = "none")
          => OutSet(fs) = hist.prevOut
    /\ \A k \in UnitIds(driver) :
          CallsOf(k, "submit") # <<>> => ~pre[k].cache.exists /\ ~pre[k].out.exists

C3_Witness ==
    /\ pc = "returned" /\ hist.prevReturned /\ hist.prev = "none" /\ hist.cur = "none"
    /\ \E k, m \in UnitIds(driver) :
          /\ OutFile(k) = File(Artifact(CacheFile(k).data))
          /\ FoundCacheOnly(m) /\ CallsOf(m, "poll") # <<>> /\ ~OutFile(m).exists

-----------------------------------------------------------------------------
(* C4 *)

\* C4: processing a unit that has a cache file, no output file and a polled
\* status other than "completed" calls neither Task.download nor the fetch,
\* leaves the cache file as it was and creates no output file.
C4_IncompleteLeavesFilesAlone ==
    \A k \in UnitIds(driver) :
        (FoundCacheOnly(k) /\ PolledIncomplete(k)) =>
            /\ CallsOf(k, "download") = <<>>
            /\ CallsOf(k, "fetch") = <<>>
            /\ CacheFile(k) = pre[k].cache
            /\ ~OutFile(k).exists

C4_Witness ==
    \E k \in UnitIds(driver) :
        /\ FoundCacheOnly(k) /\ PolledIncomplete(k) /\ StepDone(k)
        /\ CallsOf(k, "poll")[1].state = "failed"

-----------------------------------------------------------------------------
(* C5 *)

\* The units a job was submitted for
UnitsOfJob(i) == {k \in UnitIds(driver) : Units(driver)[k].year = jobs[i].year}

\* C5: whenever the process has been interrupted, every job submitted to the
\* remote service has its identifier in the cache file of its unit.
C5_InterruptLeavesCacheFile ==
    pc = "interrupted" =>
        \A i \in 1..Len(jobs) :
            \E k \in UnitsOfJob(i) : CacheFile(k) = File(jobs[i].request_id)

-----------------------------------------------------------------------------
(* C6 *)

\* C6: a call of Task.download on a task whose reply has no location raises
\* ValueError, writes no file and makes no fetch call.
C6_DownloadWithoutLocation ==
    [][(/\ pc = "status"
        /\ ~task.reply.location
        /\ Len(SelectSeq(calls'[idx], LAMBDA c : c.op = "download"))
              > Len(SelectSeq(calls[idx], LAMBDA c : c.op = "download")))
       => (/\ pc' = "raised_ValueError"
           /\ fs' = fs
           /\ SelectSeq(calls'[idx], LAMBDA c : c.op = "fetch") = <<>>)]_vars

C6_Witness ==
    /\ pc = "raised_ValueError"
    /\ ~task.reply.location
    /\ CallsOf(idx, "download") # <<>>
    /\ ~OutFile(idx).exists

-----------------------------------------------------------------------------
(* C7 *)

\* The run processed unit k and found the artifact of the job its cache file names
FoundDownloaded(k) ==
    /\ pre[k].seen
    /\ pre[k].cache.exists
    /\ pre[k].out = File(Artifact(pre[k].cache.data))

\* C7: a cache file that exists is never deleted or rewritten, by any step of
\* any run; and a run that finds a unit's artifact downloaded makes no remote
\* call for the unit and changes none of its files.
C7_CacheFileKept ==
    [][/\ \A p \in DOMAIN fs :
             (p.ext = "requestid" /\ fs[p].exists) => fs'[p] = fs[p]
       /\ \A k \in UnitIds(driver) :
             (/\ pre'[k].seen
              /\ pre'[k].cache.exists
              /\ pre'[k].out = File(Artifact(pre'[k].cache.data)))
                => /\ calls'[k] = <<>>
                   /\ fs'[OutPath(Units(driver)[k].name)] = pre'[k].out
                   /\ fs'[CachePath(Units(driver)[k].name)] = pre'[k].cache
      ]_vars

C7_Witness ==
    \E k \in UnitIds(driver) : FoundDownloaded(k) /\ StepDone(k) /\ CacheFile(k).exists

-----------------------------------------------------------------------------
(* C8 *)

IsRemoteCall(c) == c.op \in {"submit", "poll", "fetch"}
LastCall(k) == calls[k][Len(calls[k])]

\* C8: a remote call that raises ends the run with the error and is the last
\* call of the run (no retry, no later unit processed); the cache file the
\* unit had before the call is still there with the same content; and a run
\* that finds a cache file and no output file submits nothing and polls the
\* identifier in the file.
C8_RemoteErrorPropagates ==
    /\ \A k \in UnitIds(driver) : \A i \in 1..Len(calls[k]) :
          (IsRemoteCall(calls[k][i]) /\ ~calls[k][i].ok) =>
              pc = "raised_RemoteError" /\ k = idx /\ i = Len(calls[k])
    /\ pc = "raised_RemoteError" =>
          /\ calls[idx] # <<>>
          /\ IsRemoteCall(LastCall(idx)) /\ ~LastCall(idx).ok
          /\ \A k \in UnitIds(driver) : k > idx => ~pre[k].seen /\ calls[k] = <<>>
          /\ pre[idx].cache.exists => CacheFile(idx) = pre[idx].cache
          /\ LastCall(idx).op = "fetch" => CacheFile(idx) = File(LastCall(idx).request_id)
    /\ \A k \in UnitIds(driver) :
          FoundCacheOnly(k) =>
              /\ CallsOf(k, "submit") = <<>>
              /\ \A i \in 1..Len(calls[k]) :
                    calls[k][i].op = "poll" => calls[k][i].request_id = pre[k].cache.data

C8_Witness ==
    /\ pc = "raised_RemoteError"
    /\ FoundCacheOnly(idx)
    /\ LastCall(idx).op = "fetch"
    /\ idx < Len(Units(driver))

-----------------------------------------------------------------------------
(* C9 *)

\* The status the report should give unit k
ExpectedStatus(k) ==
    IF pre[k].out.exists THEN "completed"
    ELSE LET polls == CallsOf(k, "poll") IN polls[Len(polls)].state

\* C9: the report a run returns has, for every unit, the unit's name with
\* "completed" if its output file was there and with the polled status of its
\* task otherwise.
C9_ReportCoversEveryUnit ==
    pc = "returned" =>
        \A k \in UnitIds(driver) :
            \E i \in 1..Len(statuses) :
                /\ statuses[i].name = Units(driver)[k].name
                /\ statuses[i].status = ExpectedStatus(k)

\* The same for main of download_cds.py alone
C9_ReportCoversEveryUnitCds == driver = "cds" => C9_ReportCoversEveryUnit

-----------------------------------------------------------------------------
(* C10 *)

\* The years of the k-th group of 5 of range(1940, stop)
GroupFirst(k) == 1940 + 5 * (k - 1)
GroupLast(k, stop) == IF GroupFirst(k) + 4 < stop - 1 THEN GroupFirst(k) + 4 ELSE stop - 1

\* C10: the k-th name needed_downloads yields is "<first year>-<last year>"
\* of the k-th group of 5 of its years, the group 1940..1944 is named
\* "1940-1944", and distinct units get distinct names, output paths and
\* cache paths.
C10_BatchNames ==
    /\ \A k \in 1..Len(nd_names) :
          nd_names[k] = Str(GroupFirst(k)) \o <<"-">> \o Str(GroupLast(k, nd_stop))
    /\ (Len(nd_names) >= 1 /\ nd_stop >= 1945) =>
          nd_names[1] = <<"1", "9", "4", "0", "-", "1", "9", "4", "4">>
    /\ \A j, k \in 1..Len(nd_names) :
          j # k =>
              /\ nd_names[j] # nd_names[k]
              /\ OutPath(nd_names[j]) # OutPath(nd_names[k])
              /\ CachePath(nd_names[j]) # CachePath(nd_names[k])
              /\ OutPath(nd_names[j]) # CachePath(nd_names[k])

C10_Witness ==
    /\ nd_stop = YearStop
    /\ Len(nd_names) = 17
    /\ nd_names[1] = <<"1", "9", "4", "0", "-", "1", "9", "4", "4">>
    /\ nd_names[17] = <<"2", "0", "2", "0", "-", "2", "0", "2", "4">>

-----------------------------------------------------------------------------
(* C11 *)

\* The run's latest poll for unit k returned "completed"
PolledCompleted(k) ==
    LET polls == CallsOf(k, "poll")
    IN polls # <<>> /\ polls[Len(polls)].ok /\ polls[Len(polls)].state = "completed"

\* The run is past the status test of unit k: the iteration ended, or the
\* run raised in it after the poll had returned
PastStatusTest(k) ==
    \/ StepDone(k)
    \/ /\ k = idx
       /\ pc \in {"raised_ValueError", "raised_RemoteError"}
       /\ calls[k] # <<>>
       /\ calls[k][Len(calls[k])].op # "submit"
       /\ ~(calls[k][Len(calls[k])].op = "poll" /\ ~calls[k][Len(calls[k])].ok)

\* C11: for a unit without an output file the driver calls Task.download in a
\* run exactly if the status polled in that run is "completed"; the call is
\* made once, after the poll, with the unit's own output path, for the
\* identifier that the unit's cache file holds by then.
C11_DownloadIffCompleted ==
    \A k \in UnitIds(driver) :
        (pre[k].seen /\ ~pre[k].out.exists) =>
            /\ CallsOf(k, "download") # <<>> =>
                  /\ Len(CallsOf(k, "download")) = 1
                  /\ PolledCompleted(k)
                  /\ \E i, j \in 1..Len(calls[k]) :
                        i < j /\ calls[k][i].op = "poll" /\ calls[k][j].op = "download"
                  /\ CallsOf(k, "download")[1].path = OutPath(Units(driver)[k].name)
                  /\ CacheFile(k) = File(CallsOf(k, "download")[1].request_id)
            /\ (PastStatusTest(k) /\ PolledCompleted(k)) => CallsOf(k, "download") # <<>>
            /\ (PastStatusTest(k) /\ ~PolledCompleted(k)) => CallsOf(k, "download") = <<>>

C11_Witness ==
    \E k, m \in UnitIds(driver) :
        /\ StepDone(k) /\ FoundNothing(k) /\ CallsOf(k, "download") # <<>>
        /\ StepDone(m) /\ FoundCacheOnly(m) /\ CallsOf(m, "download") = <<>>
        /\ CallsOf(m, "poll")[1].state = "running"

-----------------------------------------------------------------------------
(* C12 *)

\* from_file was called on the file to_file wrote
RoundTripMade == rt.stage \in {"loaded", "raised_load"}

\* from_file issued one poll, for the identifier id, and no submit
OnePollNoSubmit(id) ==
    /\ Len(rt.calls) = 1
    /\ rt.calls[1].op = "poll"
    /\ rt.calls[1].request_id = id
    /\ Len(jobs) = rt.njobs

\* The string has no leading and no trailing blank
Trimmed(str) == str = <<>> \/ (str[1] # " " /\ str[Len(str)] # " ")

\* C12 as stated: for any Task, from_file on the file to_file wrote polls the
\* Task's identifier once, submits nothing, and the Task it yields has the
\* same identifier.
C12_RoundTripAnyTask ==
    RoundTripMade =>
        /\ OnePollNoSubmit(rt.orig.request_id)
        /\ rt.stage = "loaded" => rt.loaded.request_id = rt.orig.request_id

\* C12 (amended): the same for any Task whose identifier has no leading or
\* trailing whitespace.
C12_RoundTrip ==
    (RoundTripMade /\ Trimmed(rt.orig.request_id)) =>
        /\ OnePollNoSubmit(rt.orig.request_id)
        /\ rt.stage = "loaded" => rt.loaded.request_id = rt.orig.request_id

C12_Witness ==
    /\ rt.stage = "loaded"
    /\ Trimmed(rt.orig.request_id)
    /\ rt.orig.request_id = <<"r", " ", "1">>
    /\ rt.loaded.reply.state = "completed"
    /\ rt.orig.reply.state = "queued"

-----------------------------------------------------------------------------
(* C13 *)

RECURSIVE Concat(_)
Concat(batches) ==
    IF batches = <<>> THEN <<>> ELSE Head(batches) \o Concat(Tail(batches))

\* C13: with n >= 1 the batches yielded so far are, concatenated, the items
\* consumed so far, in order, and each but the latest has exactly n items;
\* when the generator stops they make up the whole input, the last has between
\* 1 and n items and an empty input has yielded no batch.  With n < 1 the
\* generator yields nothing and its first step raises ValueError.
C13_BatchedPartitions ==
    LET out == bt.yielded
    IN /\ bt.n >= 1 =>
            /\ bt.stage # "raised_ValueError"
            /\ Concat(out) = SubSeq(bt.iterable, 1, bt.pos - 1)
            /\ \A i \in 1..Len(out) : Len(out[i]) >= 1 /\ Len(out[i]) <= bt.n
            /\ \A i \in 1..(Len(out) - 1) : Len(out[i]) = bt.n
            /\ bt.stage = "stopped" =>
                  /\ Concat(out) = bt.iterable
                  /\ bt.iterable = <<>> => out = <<>>
                  /\ out = Batched(bt.iterable, bt.n).batches
            /\ (bt.stage = "created" /\ bt.iterable # <<>>) => ENABLED BatchedYield
       /\ bt.n < 1 =>
            /\ out = <<>>
            /\ bt.stage \in {"created", "raised_ValueError"}
            /\ Batched(bt.iterable, bt.n).raised
            /\ bt.stage = "created" => (ENABLED BatchedRaise /\ ~ENABLED BatchedYield)

C13_Witness ==
    /\ bt.stage = "stopped"
    /\ bt.n = 2
    /\ Len(bt.iterable) = 3
    /\ Len(bt.yielded) = 2
    /\ Len(bt.yielded[2]) = 1

\* batched with n < 1 has raised
C13_WitnessRaised == bt.stage = "raised_ValueError" /\ bt.n = 0 /\ bt.iterable # <<>>

-----------------------------------------------------------------------------
(* C14 *)

\* Every needed unit has its output file
AllOutputs == \A k \in UnitIds(driver) : OutFile(k).exists

\* The run under way, or the latest one, has made no remote call
NoRemoteCall == \A k \in UnitIds(driver) : RemoteCallsOf(k) = <<>>

\* The remote service attaches a location to every completed reply
LocationAttached ==
    \A k \in 1..Len(jobs) : jobs[k].state = "completed" => jobs[k].location

\* C14 as stated: when no remote call fails and every job goes on to completed,
\* the repeated runs reach a point from which every unit has its output file
\* and the runs make no remote call.
C14_EventuallyAllDownloaded == <>[](AllOutputs /\ NoRemoteCall)

\* C14 (amended): the same, provided the remote service attaches a location to
\* every completed reply.
C14_EventuallyAllDownloadedIfLocated ==
    []LocationAttached => <>[](AllOutputs /\ NoRemoteCall)

C14_Witness ==
    /\ AllOutputs
    /\ NoRemoteCall
    /\ pc = "returned"
    /\ hist.prevReturned
    /\ LocationAttached
    /\ \E k \in UnitIds(driver) :
          \E j \in 1..Len(jobs) : OutFile(k) = File(Artifact(jobs[j].request_id))

-----------------------------------------------------------------------------
(* C15 *)

\* The runs started with no output file: a file that was there before the
\* first run is never touched, so none is there now
StartedEmpty == \A k \in UnitIds(driver) : OutFile(k) # File(ForeignData)

\* The jobs the cache file of unit k names
JobsOfCacheFile(k) ==
    {j \in 1..Len(jobs) : CacheFile(k).exists /\ jobs[j].request_id = CacheFile(k).data}

\* The run under way, or the latest one, wrote unit k's output file
WrittenThisRun(k) == pre[k].seen /\ ~pre[k].out.exists /\ OutFile(k).exists

\* C15: in runs that started with no output files, a unit that has an output
\* file has one job named by its cache file, that job was submitted for the
\* unit and is completed (never queued, running or failed), and the run that
\* wrote the file polled that job with status completed and then issued the
\* download for it.
C15_OutputOnlyAfterCompletedDownload ==
    StartedEmpty =>
        \A k \in UnitIds(driver) :
            OutFile(k).exists =>
                /\ Cardinality(JobsOfCacheFile(k)) = 1
                /\ \A j \in JobsOfCacheFile(k) :
                      /\ k \in UnitsOfJob(j)
                      /\ jobs[j].state = "completed"
                      /\ jobs[j].state \notin {"queued", "running", "failed"}
                      /\ WrittenThisRun(k) =>
                            \E a, b \in 1..Len(calls[k]) :
                                /\ a < b
                                /\ calls[k][a] = Call("poll", jobs[j].request_id, TRUE, "completed")
                                /\ calls[k][b].op = "download"
                                /\ calls[k][b].request_id = jobs[j].request_id

C15_Witness ==
    /\ StartedEmpty
    /\ hist.prevReturned
    /\ \E k, m \in UnitIds(driver) :
          /\ OutFile(k).exists /\ ~WrittenThisRun(k)
          /\ ~OutFile(m).exists
          /\ \E j \in JobsOfCacheFile(m) : jobs[j].state = "failed"
          /\ StepDone(m)

\* A run has just written an output file
C15_WitnessWritten ==
    StartedEmpty /\ \E k \in UnitIds(driver) : WrittenThisRun(k) /\ FoundCacheOnly(k)

-----------------------------------------------------------------------------
(* C16 *)

\* The positions of the driver's calls of Task.download in unit k's log
DownloadsAt(k) == {i \in 1..Len(calls[k]) : calls[k][i].op = "download"}

\* C16: every call of Task.download comes straight after the poll whose reply
\* said completed, for the same identifier, and it raises the invalid-state
\* error only when that reply had no location; so as long as the remote
\* service has attached a location to every completed reply the driver has not
\* raised the invalid-state error and every download it issued went on to
\* fetch.
C16_DownloadPassesGuard ==
    /\ \A k \in UnitIds(driver) : \A i \in DownloadsAt(k) :
          /\ i > 1
          /\ calls[k][i - 1] = Call("poll", calls[k][i].request_id, TRUE, "completed")
          /\ calls[k][i].state = "completed"
          /\ LocationAttached =>
                /\ i < Len(calls[k])
                /\ calls[k][i + 1].op = "fetch"
                /\ calls[k][i + 1].request_id = calls[k][i].request_id
    /\ pc = "raised_ValueError" =>
          /\ task.reply = [state |-> "completed", location |-> FALSE]
          /\ ~LocationAttached
    /\ LocationAttached => pc # "raised_ValueError"

C16_Witness ==
    /\ LocationAttached
    /\ \E k \in UnitIds(driver) :
          /\ DownloadsAt(k) # {}
          /\ FoundCacheOnly(k)
          /\ OutFile(k) = File(Artifact(calls[k][Len(calls[k])].request_id))
    /\ \E j \in 1..Len(jobs) : jobs[j].state = "running"

====
